---- MODULE Spec2Model ----
(***************************************************************************)
(* MeetFlow: the analysis stage (AnalysisService.analyze_meeting) as a     *)
(* state machine.  One call walks the candidate list, issues one request   *)
(* per loop iteration, parses the returned content with json.loads and     *)
(* either returns a value or raises.  Text is modelled as a sequence of    *)
(* one-character strings, so that len(), slicing and JSON parsing are      *)
(* computed on the characters themselves.                                  *)
(***************************************************************************)
EXTENDS Integers, Sequences, FiniteSets, TLC

(***************************************************************************)
(* Bounds of the model.                                                    *)
(***************************************************************************)
\* longest explicit models_to_try list a caller passes
MaxLen == 2
\* most segments the speech model emits for one audio file
MaxSegs == 2
\* most calls a caller makes on one TranscriptionService
MaxCalls == 2

(***************************************************************************)
(* Program constants.                                                      *)
(***************************************************************************)
\* raw_content[:500] if len(raw_content) > 500
Limit == 500

\* the default candidate list, in its source order
DefaultModels ==
    <<"llama-3.1-8b-instant", "llama-3.3-70b-versatile", "mixtral-8x7b-32768">>

Models == {DefaultModels[i] : i \in DOMAIN DefaultModels}

\* the keys of the structure the system prompt asks for
resume_executif ==
    <<"r", "e", "s", "u", "m", "e", "_", "e", "x", "e", "c", "u", "t", "i", "f">>
action_items == <<"a", "c", "t", "i", "o", "n", "_", "i", "t", "e", "m", "s">>
tache == <<"t", "a", "c", "h", "e">>
responsable == <<"r", "e", "s", "p", "o", "n", "s", "a", "b", "l", "e">>
\* the owner the system prompt tells the backend to use for an unknown owner
ToBeDetermined ==
    <<"T", "o", " ", "b", "e", " ", "d", "e", "t", "e", "r", "m", "i", "n",
      "e", "d">>

(***************************************************************************)
(* Python values.  Every value carries its type tag; the payload field has *)
(* a name of its own per type.                                             *)
(***************************************************************************)
PyNone == [t |-> "None"]
PyStr(s) == [t |-> "str", s |-> s]
PyInt(n) == [t |-> "int", n |-> n]
PyBool(b) == [t |-> "bool", b |-> b]
PyList(items) == [t |-> "list", items |-> items]
PyDict(map) == [t |-> "dict", map |-> map]

EmptyMap == [k \in {} |-> PyNone]

\* d[k] = v on a dict: a later key replaces an earlier equal key
SetItem(map, k, v) == (k :> v) @@ map

(***************************************************************************)
(* json.loads on a character sequence: a recursive-descent parser for      *)
(* objects, arrays, strings, non-negative integers, true, false and null,  *)
(* with optional spaces between tokens.  A parse result is                 *)
(* [ok, val, next]; next is the index after the parsed value.              *)
(***************************************************************************)
Digits == {"0", "1", "2", "3", "4", "5", "6", "7", "8", "9"}

DigitVal(c) == CHOOSE n \in 0..9 : <<"0", "1", "2", "3", "4", "5", "6", "7", "8", "9">>[n + 1] = c

At(s, i) == IF i \in 1..Len(s) THEN s[i] ELSE "EOF"

Fail(i) == [ok |-> FALSE, val |-> PyNone, next |-> i]
Parsed(v, i) == [ok |-> TRUE, val |-> v, next |-> i]

RECURSIVE SkipWs(_, _)
SkipWs(s, i) == IF At(s, i) = " " THEN SkipWs(s, i + 1) ELSE i

\* index of the closing quote of a string whose body starts at i, 0 if none
RECURSIVE ClosingQuote(_, _)
ClosingQuote(s, i) ==
    IF i > Len(s) THEN 0
    ELSE IF s[i] = "\"" THEN i
    ELSE ClosingQuote(s, i + 1)

ParseString(s, i) ==
    LET j == ClosingQuote(s, i + 1)
    IN  IF At(s, i) # "\"" \/ j = 0 THEN Fail(i)
        ELSE Parsed(PyStr(SubSeq(s, i + 1, j - 1)), j + 1)

RECURSIVE ParseDigits(_, _, _)
ParseDigits(s, i, acc) ==
    IF At(s, i) \in Digits
    THEN ParseDigits(s, i + 1, 10 * acc + DigitVal(s[i]))
    ELSE Parsed(PyInt(acc), i)

\* a leading zero ends the number: "01" is the number 0 followed by extra data
ParseNumber(s, i) ==
    IF At(s, i) = "0" THEN Parsed(PyInt(0), i + 1) ELSE ParseDigits(s, i, 0)

ParseLiteral(s, i, word, v) ==
    IF i + Len(word) - 1 <= Len(s) /\ SubSeq(s, i, i + Len(word) - 1) = word
    THEN Parsed(v, i + Len(word))
    ELSE Fail(i)

RECURSIVE ParseValue(_, _)
RECURSIVE ParseElements(_, _, _)
RECURSIVE ParseMembers(_, _, _)

\* ParseElements with each element put in front of those already read
ParseElements_Prepend(s, i, acc) ==
    LET r == ParseValue(s, i)
        k == SkipWs(s, r.next)
    IN  IF ~r.ok THEN Fail(i)
        ELSE IF At(s, k) = "," THEN ParseElements(s, SkipWs(s, k + 1), <<r.val>> \o acc)
        ELSE IF At(s, k) = "]" THEN Parsed(PyList(<<r.val>> \o acc), k + 1)
        ELSE Fail(k)

ParseElements(s, i, acc) ==
    LET r == ParseValue(s, i)
        k == SkipWs(s, r.next)
    IN  IF ~r.ok THEN Fail(i)
        ELSE IF At(s, k) = "," THEN ParseElements(s, SkipWs(s, k + 1), Append(acc, r.val))
        ELSE IF At(s, k) = "]" THEN Parsed(PyList(Append(acc, r.val)), k + 1)
        ELSE Fail(k)

ParseMembers(s, i, acc) ==
    LET key == ParseString(s, i)
        c == SkipWs(s, key.next)
        r == ParseValue(s, SkipWs(s, c + 1))
        k == SkipWs(s, r.next)
    IN  IF ~key.ok \/ At(s, c) # ":" THEN Fail(i)
        ELSE IF ~r.ok THEN Fail(c)
        ELSE IF At(s, k) = "," THEN ParseMembers(s, SkipWs(s, k + 1), SetItem(acc, key.val.s, r.val))
        ELSE IF At(s, k) = "}" THEN Parsed(PyDict(SetItem(acc, key.val.s, r.val)), k + 1)
        ELSE Fail(k)

ParseValue(s, i) ==
    LET c == At(s, i)
    IN  IF c = "{"
        THEN IF At(s, SkipWs(s, i + 1)) = "}"
             THEN Parsed(PyDict(EmptyMap), SkipWs(s, i + 1) + 1)
             ELSE ParseMembers(s, SkipWs(s, i + 1), EmptyMap)
        ELSE IF c = "["
        THEN IF At(s, SkipWs(s, i + 1)) = "]"
             THEN Parsed(PyList(<<>>), SkipWs(s, i + 1) + 1)
             ELSE ParseElements(s, SkipWs(s, i + 1), <<>>)
        ELSE IF c = "\"" THEN ParseString(s, i)
        ELSE IF c \in Digits THEN ParseNumber(s, i)
        ELSE IF c = "n" THEN ParseLiteral(s, i, <<"n", "u", "l", "l">>, PyNone)
        ELSE IF c = "t" THEN ParseLiteral(s, i, <<"t", "r", "u", "e">>, PyBool(TRUE))
        ELSE IF c = "f" THEN ParseLiteral(s, i, <<"f", "a", "l", "s", "e">>, PyBool(FALSE))
        ELSE Fail(i)

\* json.loads(s): the value, or JSONDecodeError (ok = FALSE); text after the
\* value other than spaces is "Extra data"
json_loads(s) ==
    LET r == ParseValue(s, SkipWs(s, 1))
    IN  IF r.ok /\ SkipWs(s, r.next) = Len(s) + 1
        THEN [ok |-> TRUE, val |-> r.val]
        ELSE [ok |-> FALSE, val |-> PyNone]

(***************************************************************************)
(* What the backend can send back.  A response object carries a list of    *)
(* choices; a choice carries message.content, a str or None.               *)
(***************************************************************************)
TeamSummary ==
    <<"T", "e", "a", "m", " ", "d", "i", "s", "c", "u", "s", "s", "e", "d",
      " ", "r", "e", "p", "o", "r", "t", " ", "d", "e", "a", "d", "l", "i",
      "n", "e", ".">>
FinishReport == <<"F", "i", "n", "i", "s", "h", " ", "r", "e", "p", "o", "r", "t">>
SendMinutes == <<"S", "e", "n", "d", " ", "m", "i", "n", "u", "t", "e", "s">>
Alice == <<"A", "l", "i", "c", "e">>
Bob == <<"B", "o", "b">>

Q(s) == <<"\"">> \o s \o <<"\"">>

\* {"tache": task, "responsable": owner}
ItemText(task, owner) ==
    <<"{">> \o Q(tache) \o <<":", " ">> \o Q(task) \o <<",", " ">>
        \o Q(responsable) \o <<":", " ">> \o Q(owner) \o <<"}">>

\* {"tache": task}: the responsible party is left out
ItemTextNoOwner(task) == <<"{">> \o Q(tache) \o <<":", " ">> \o Q(task) \o <<"}">>

\* {"resume_executif": summary, "action_items": [items]}
ObjectText(summary, items) ==
    <<"{">> \o Q(resume_executif) \o <<":", " ">> \o Q(summary) \o <<",", " ">>
        \o Q(action_items) \o <<":", " ", "[">> \o items \o <<"]", "}">>

RoundTripContent == ObjectText(TeamSummary, ItemText(FinishReport, Alice))
TwoItemsContent ==
    ObjectText(TeamSummary,
               ItemText(SendMinutes, Bob) \o <<",", " ">> \o ItemText(FinishReport, Alice))
NoItemsContent == ObjectText(TeamSummary, <<>>)
MissingOwnerContent == ObjectText(TeamSummary, ItemTextNoOwner(FinishReport))
\* an object without the action_items field
MissingFieldContent == <<"{">> \o Q(resume_executif) \o <<":", " ">> \o Q(TeamSummary) \o <<"}">>
EmptyObjectContent == <<"{", "}">>
ArrayContent == <<"[", "7", "]">>
StringContent == Q(TeamSummary)
NumberContent == <<"4", "2">>
NullContent == <<"n", "u", "l", "l">>

\* prose of n >= 2 characters: no JSON value starts with "S"
Prose(n) == [i \in 1..n |-> IF i = 1 THEN "S" ELSE IF i = n THEN "." ELSE "x"]

Sorry == <<"S", "o", "r", "r", "y">>
\* a JSON object cut off in the middle
CutContent == SubSeq(RoundTripContent, 1, Len(RoundTripContent) - 2)
\* a JSON value followed by more text
ExtraDataContent == EmptyObjectContent \o <<" ">> \o Sorry

StructuredContents ==
    {RoundTripContent, TwoItemsContent, NoItemsContent, MissingOwnerContent,
     MissingFieldContent, EmptyObjectContent}
OtherJsonContents == {ArrayContent, StringContent, NumberContent, NullContent}
UnparseableContents ==
    {<<>>, Sorry, CutContent, ExtraDataContent, Prose(Limit), Prose(Limit + 1),
     Prose(Limit + 3)}
Contents == StructuredContents \cup OtherJsonContents \cup UnparseableContents

\* message.content: None, or a str
NoContent == [isNone |-> TRUE, s |-> <<>>]
StrContent(s) == [isNone |-> FALSE, s |-> s]

\* the local variable response: None before the first assignment
NoResponse == [isNone |-> TRUE, choices |-> <<>>]
Response(choices) == [isNone |-> FALSE, choices |-> choices]

Responses ==
    {Response(<<>>), Response(<<NoContent>>)}
        \cup {Response(<<StrContent(c)>>) : c \in Contents}

\* what client.chat.completions.create can raise: an API or transport error,
\* or a JSONDecodeError out of the client's own decoding of the HTTP body
RequestErrors == {"APIError", "JSONDecodeError"}

\* an exception object: its type, the call that raised it, the loop position
Error(type, src, at) == [type |-> type, src |-> src, at |-> at]
NoError == Error("None", "none", 0)

(***************************************************************************)
(* The pieces of one loop iteration of analyze_meeting.  Each returns what *)
(* the iteration leaves behind: analysis_data, last_error, how control     *)
(* leaves the iteration (break, continue, or an exception that leaves the  *)
(* call) and that exception.                                               *)
(***************************************************************************)
Flow(ad, le, exit, raised) ==
    [analysis_data |-> ad, last_error |-> le, exit |-> exit, raised |-> raised]

\* response.choices[0].message.content: IndexError on an empty choices list
ReadContent(resp) ==
    IF Len(resp.choices) = 0
    THEN [exc |-> "IndexError", content |-> NoContent]
    ELSE [exc |-> "none", content |-> resp.choices[1]]

\* json.loads(response.choices[0].message.content): the parsed value, or the
\* exception raised (json.loads(None) is a TypeError)
TryParse(resp, pos) ==
    LET rc == ReadContent(resp)
        j == json_loads(rc.content.s)
    IN  IF rc.exc # "none" THEN [exc |-> Error("IndexError", "try", pos), val |-> PyNone]
        ELSE IF rc.content.isNone THEN [exc |-> Error("TypeError", "try", pos), val |-> PyNone]
        ELSE IF j.ok THEN [exc |-> NoError, val |-> j.val]
        ELSE [exc |-> Error("JSONDecodeError", "try", pos), val |-> PyNone]

\* TrySuccess without the break: the loop goes on to the next candidate
TrySuccess_NoBreak(val, le) == Flow(val, le, "continue", NoError)

\* analysis_data = json.loads(...); break
TrySuccess(val, le) == Flow(val, le, "break", NoError)

\* Truncate with the slice one character short
Truncate_OffByOne(raw) == IF Len(raw) > Limit THEN SubSeq(raw, 1, Limit - 1) ELSE raw

\* raw_content[:500] if len(raw_content) > 500 else raw_content
Truncate(raw) == IF Len(raw) > Limit THEN SubSeq(raw, 1, Limit) ELSE raw

\* {"resume_executif": ..., "action_items": []}
Degraded(raw) ==
    PyDict(SetItem(SetItem(EmptyMap, resume_executif, PyStr(Truncate(raw))),
                   action_items, PyList(<<>>)))

\* ExceptJSONDecodeError that always goes on to the next candidate
ExceptJSONDecodeError_Continue(ad, resp, e) == Flow(ad, e, "continue", NoError)

\* except json.JSONDecodeError as e: resp is the local variable response as
\* it stands when the handler runs
ExceptJSONDecodeError(ad, resp, e) ==
    LET rc == ReadContent(resp)
    IN  IF resp.isNone THEN Flow(ad, e, "continue", NoError)
        ELSE IF rc.exc # "none"
        THEN Flow(ad, e, "raise", Error("IndexError", "handler", e.at))
        ELSE IF rc.content.isNone
        THEN Flow(ad, e, "raise", Error("TypeError", "handler", e.at))
        ELSE Flow(Degraded(rc.content.s), e, "break", NoError)

\* ExceptException that keeps the first error recorded
ExceptException_KeepFirst(ad, le, e) ==
    Flow(ad, IF le = NoError THEN e ELSE le, "continue", NoError)

\* ExceptException that leaves the loop instead of trying the next candidate
ExceptException_Break(ad, le, e) == Flow(ad, e, "break", NoError)

\* except Exception as e: last_error = e; continue (le is last_error as the
\* handler finds it)
ExceptException(ad, le, e) == Flow(ad, e, "continue", NoError)

\* Handle with the generic clause catching everything
Handle_GenericFirst(ad, le, resp, e) == Flow(ad, e, "continue", NoError)

\* the except clause that catches e: the JSONDecodeError clause comes first
Handle(ad, le, resp, e) ==
    IF e.type = "JSONDecodeError"
    THEN ExceptJSONDecodeError(ad, resp, e)
    ELSE ExceptException(ad, le, e)

(***************************************************************************)
(* What a call hands back to its caller.                                   *)
(***************************************************************************)
Returned(v) == [kind |-> "return", value |-> v, error |-> NoError, cause |-> NoError]
Raised(e, cause) == [kind |-> "raise", value |-> PyNone, error |-> e, cause |-> cause]

\* raise Exception(f"All models failed. Last error: {str(last_error)}")
Exhausted(le) == Raised(Error("Exception", "exhausted", 0), le)

(***************************************************************************)
(* The request analyze_meeting sends for one candidate.                    *)
(***************************************************************************)
\* the columns the continuation lines of the system_prompt literal are
\* indented by: they are part of the string
PromptIndent == 8

\* the system_prompt literal: its first line, the indentation of the lines
\* after it, its last line
SystemPrompt(indent) ==
    [first |-> "You are an expert assistant for analyzing professional meetings.",
     indent |-> indent,
     last |-> "Use the same language as the transcription (English or French)."]

system_prompt == SystemPrompt(PromptIndent)

\* f"Analyze this meeting transcription:\n\n{transcription_text}"
UserPrefix ==
    <<"A", "n", "a", "l", "y", "z", "e", " ", "t", "h", "i", "s", " ", "m",
      "e", "e", "t", "i", "n", "g", " ", "t", "r", "a", "n", "s", "c", "r",
      "i", "p", "t", "i", "o", "n", ":", "\n", "\n">>

UserMessage(transcription_text) == UserPrefix \o transcription_text

\* temperature=0.7
Temperature == "0.7"

\* response_format={"type": "json_object"}
ResponseFormat == "json_object"

(***************************************************************************)
(* The callers.  A script is the sequence of the arguments a caller passes *)
(* in successive calls on one AnalysisService: the transcript, and for     *)
(* models_to_try None (the default list is used) or an explicit list.      *)
(***************************************************************************)
MeetingText == <<"H", "i">>

\* transcripts: empty, several words, characters a format could escape
Transcripts ==
    {<<>>, MeetingText, <<"H", "i", " ", "o", "k">>, <<"{", "\"", "\n", "}">>}

NoneArg == [isNone |-> TRUE, list |-> <<>>, text |-> MeetingText]
ListArg(l) == [isNone |-> FALSE, list |-> l, text |-> MeetingText]
WithText(arg, text) == [arg EXCEPT !.text = text]

CandidateLists == UNION {[1..n -> Models] : n \in 0..MaxLen}
Args == {NoneArg} \cup {ListArg(l) : l \in CandidateLists}

Last(l) == l[Len(l)]
Distinct(l) == \A i, j \in DOMAIN l : i # j => l[i] # l[j]

\* one call, or a call with a list of distinct candidates followed by a call
\* with the last candidate of that list alone
Scripts ==
    {<<a>> : a \in Args}
        \cup {<<WithText(NoneArg, text)>> : text \in Transcripts}
        \cup {<<ListArg(l), ListArg(<<Last(l)>>)>> :
                l \in {c \in CandidateLists : Len(c) >= 2 /\ Distinct(c)}}

(***************************************************************************)
(* The transcription stage (TranscriptionService).  The speech model hands *)
(* back a lazy sequence of segments and an info object; a segment sequence *)
(* is modelled as the texts it will yield, the read at which it raises     *)
(* (0: never) and the number of reads made so far.                         *)
(***************************************************************************)
\* the sizes the callers offer (the selectbox of the front end)
ModelSizes == {"tiny", "base", "small"}

\* what WhisperModel(...) can fail with
LoadCauses == {"missing weights", "unsupported platform"}

SegmentTexts == {<<" ", "H", "i">>, <<"o", "k">>, <<" ">>}
SegmentSeqs == UNION {[1..n -> SegmentTexts] : n \in 0..MaxSegs}

Infos ==
    {[language |-> "en", language_probability |-> "high", duration |-> "known"],
     [language |-> "fr", language_probability |-> "low", duration |-> "None"]}
NoInfo == [language |-> "none", language_probability |-> "none", duration |-> "none"]

\* What the model does on one transcribe call.  fail_at = -1: the call itself
\* raises; otherwise it returns a lazy sequence that yields segs and raises
\* when asked for segment number fail_at (0: it never raises).  pos is the
\* number of segments read from the sequence.
Generator(segs, fail_at) == [segs |-> segs, fail_at |-> fail_at, pos |-> 0]
NoGenerator == Generator(<<>>, 0)
FailedCall == Generator(<<>>, -1)

\* what the model's decoding can fail with
DecodeCauses == {"decode failure", "read failure"}
Generators ==
    {g \in {Generator(s, f) : s \in SegmentSeqs, f \in 0..(MaxSegs + 1)} :
        g.fail_at <= Len(g.segs) + 1}

\* str.strip(): leading and trailing whitespace removed
Whitespace == {" ", "\t", "\n"}

RECURSIVE LStrip(_)
LStrip(s) == IF s # <<>> /\ Head(s) \in Whitespace THEN LStrip(Tail(s)) ELSE s

RECURSIVE RStrip(_)
RStrip(s) ==
    IF s # <<>> /\ s[Len(s)] \in Whitespace THEN RStrip(SubSeq(s, 1, Len(s) - 1)) ELSE s

Strip(s) == RStrip(LStrip(s))

\* what a call on the service hands back: (text, metadata), the model handle
\* (load_model), or an exception with its message and the cause it wraps
TReturned(text, metadata, handle) ==
    [kind |-> "return", text |-> text, metadata |-> metadata, handle |-> handle,
     msg |-> "none", cause |-> "none"]
TRaised(msg, cause) ==
    [kind |-> "raise", text |-> <<>>, metadata |-> NoInfo, handle |-> 0,
     msg |-> msg, cause |-> cause]
NoResult ==
    [kind |-> "none", text |-> <<>>, metadata |-> NoInfo, handle |-> 0,
     msg |-> "none", cause |-> "none"]

\* raise Exception(f"Error loading Whisper model: {str(e)}")
LoadError(cause) == TRaised("Error loading Whisper model", cause)
\* raise Exception(f"Error during transcription: {str(e)}")
TranscriptionError(cause) == TRaised("Error during transcription", cause)

(***************************************************************************)
(* State.                                                                  *)
(***************************************************************************)
VARIABLES
    script,          \* the arguments of the calls still to be made
    pc,              \* "idle": no call runs; "loop"; "after": past the loop
    models_to_try,   \* the candidate list of the running call
    idx,             \* the 1-based position of the next loop iteration
    analysis_data,   \* local of analyze_meeting
    last_error,      \* local of analyze_meeting
    response,        \* local of analyze_meeting
    requests,        \* the requests issued by the running call, in order
    history,         \* the finished calls: argument, requests, result
    client           \* self.client, the only field of the AnalysisService

\* TranscriptionService and the calls made on it
VARIABLES
    model_size,          \* self.model_size
    model,               \* self.model: 0 is None, else the handle of a WhisperModel
    instantiated,        \* how many WhisperModel objects have been built
    load_attempts,       \* how many times WhisperModel(...) has been called
    model_calls,         \* how many times self.model.transcribe(...) has been called
    top,                 \* the method the caller invoked ("none": no call runs)
    tpc,                 \* the position inside the running call
    segments,            \* local of transcribe_audio_file: the lazy sequence
    info,                \* local of transcribe_audio_file
    transcription_text,  \* local of transcribe_audio_file
    reads,               \* the positions of segments read so far, in order
    temp_file,           \* local of transcribe_uploaded_file: 0 is None
    temp_file_path,      \* local of transcribe_uploaded_file: 0 is None
    pending,             \* what transcribe_uploaded_file is about to hand back
    disk,                \* the temporary files that exist
    ncalls,              \* the calls made so far
    tlast                \* the call that is running or has just finished

tvars ==
    <<model_size, model, instantiated, load_attempts, model_calls, top, tpc, segments, info,
      transcription_text, reads, temp_file, temp_file_path, pending, disk,
      ncalls, tlast>>

\* one run of the front end's pipeline
VARIABLES
    ppc,                 \* the position of the run
    stages,              \* the stages the run has entered, in order
    shown,               \* what the page has shown so far, in order
    fe_text,             \* transcription_text of the front end
    fe_analysis          \* analysis_data of the front end

pvars == <<ppc, stages, shown, fe_text, fe_analysis>>

\* AnalysisService and the calls made on it
avars ==
    <<script, pc, models_to_try, idx, analysis_data, last_error, response,
      requests, history, client>>

vars == <<avars, tvars, pvars>>

\* self.client = Groq(api_key=api_key)
ApiKey == "GROQ_API_KEY"
Groq(api_key) == [api_key |-> api_key]

\* the engine as a call finds it
Engine(size, mdl, attempts, calls) ==
    [model_size |-> size, model |-> mdl, load_attempts |-> attempts,
     model_calls |-> calls]

\* the record of a call on the service: the engine it found, what the model
\* did, the segments it read, the temporary file it created, its result
TCall(op, before, gen, rd, file, result) ==
    [op |-> op, before |-> before, segments |-> gen, reads |-> rd,
     temp_file |-> file, result |-> result]
NoCall == TCall("none", Engine("none", 0, 0, 0), NoGenerator, <<>>, 0, NoResult)

\* TranscriptionService.__init__: no model is built
ServiceInit ==
    /\ model_size \in ModelSizes
    /\ model = 0
    /\ instantiated = 0
    /\ load_attempts = 0
    /\ model_calls = 0
    /\ top = "none"
    /\ tpc = "none"
    /\ segments = NoGenerator
    /\ info = NoInfo
    /\ transcription_text = <<>>
    /\ reads = <<>>
    /\ temp_file = 0
    /\ temp_file_path = 0
    /\ pending = NoResult
    /\ disk = {}
    /\ ncalls = 0
    /\ tlast = NoCall

\* no run of the pipeline
PipelineOff ==
    /\ ppc = "off"
    /\ stages = <<>>
    /\ shown = <<>>
    /\ fe_text = <<>>
    /\ fe_analysis = PyNone

\* no call on the AnalysisService is asked for
AnalysisIdle(s) ==
    /\ script = s
    /\ pc = "idle"
    /\ models_to_try = <<>>
    /\ idx = 1
    /\ analysis_data = PyNone
    /\ last_error = NoError
    /\ response = NoResponse
    /\ requests = <<>>
    /\ history = <<>>
    /\ client = Groq(ApiKey)

Init ==
    /\ ServiceInit
    /\ model_size = "base"
    /\ PipelineOff
    /\ script \in Scripts
    /\ pc = "idle"
    /\ models_to_try = <<>>
    /\ idx = 1
    /\ analysis_data = PyNone
    /\ last_error = NoError
    /\ response = NoResponse
    /\ requests = <<>>
    /\ history = <<>>
    /\ client = Groq(ApiKey)

\* analyze_meeting with the default list in place of an empty list too
AnalyzeMeeting_OrDefault ==
    /\ pc = "idle"
    /\ script # <<>>
    /\ models_to_try' = IF Head(script).isNone \/ Head(script).list = <<>>
                        THEN DefaultModels ELSE Head(script).list
    /\ analysis_data' = PyNone
    /\ last_error' = NoError
    /\ response' = NoResponse
    /\ idx' = 1
    /\ requests' = <<>>
    /\ pc' = "loop"
    /\ UNCHANGED <<script, history, client, tvars, pvars>>

\* analyze_meeting starting at the candidate the previous call ended on
AnalyzeMeeting_Sticky ==
    /\ pc = "idle"
    /\ script # <<>>
    /\ models_to_try' = IF Head(script).isNone THEN DefaultModels ELSE Head(script).list
    /\ analysis_data' = PyNone
    /\ last_error' = NoError
    /\ response' = NoResponse
    /\ idx' = IF history = <<>> \/ Last(history).requests = <<>> THEN 1
               ELSE Len(Last(history).requests)
    /\ requests' = <<>>
    /\ pc' = "loop"
    /\ UNCHANGED <<script, history, client, tvars, pvars>>

\* entry of analyze_meeting: the default list replaces None only; the three
\* locals are set to None
AnalyzeMeeting ==
    /\ pc = "idle"
    /\ script # <<>>
    /\ models_to_try' = IF Head(script).isNone THEN DefaultModels ELSE Head(script).list
    /\ analysis_data' = PyNone
    /\ last_error' = NoError
    /\ response' = NoResponse
    /\ idx' = 1
    /\ requests' = <<>>
    /\ pc' = "loop"
    /\ UNCHANGED <<script, history, client, tvars, pvars>>

InLoop == pc = "loop" /\ idx <= Len(models_to_try)

\* the request with a temperature that falls from candidate to candidate
Request_Cooling(raised, resp) ==
    [pos |-> idx, model |-> models_to_try[idx],
     system |-> system_prompt, user |-> UserMessage(Head(script).text),
     temperature |-> IF idx = 1 THEN Temperature ELSE "0.0",
     response_format |-> ResponseFormat,
     raised |-> raised, response |-> resp]

\* one request as the backend sees it, and what the backend did with it
Request(raised, resp) ==
    [pos |-> idx, model |-> models_to_try[idx],
     system |-> system_prompt, user |-> UserMessage(Head(script).text),
     temperature |-> Temperature, response_format |-> ResponseFormat,
     raised |-> raised, response |-> resp]

CallRecord(reqs, result) ==
    [arg |-> Head(script), requests |-> reqs, result |-> result]

\* the call is over: its locals are gone
Leave(reqs, result) ==
    /\ history' = Append(history, CallRecord(reqs, result))
    /\ script' = Tail(script)
    /\ pc' = "idle"
    /\ models_to_try' = <<>>
    /\ idx' = 1
    /\ analysis_data' = PyNone
    /\ last_error' = NoError
    /\ response' = NoResponse
    /\ requests' = <<>>
    /\ UNCHANGED <<client, tvars, pvars>>

\* the rest of an iteration with `continue` trying the same candidate again
Continue_Retry(f, resp, req) ==
    IF f.exit = "raise"
    THEN Leave(Append(requests, req), Raised(f.raised, f.last_error))
    ELSE /\ requests' = Append(requests, req)
         /\ response' = resp
         /\ analysis_data' = f.analysis_data
         /\ last_error' = f.last_error
         /\ idx' = idx
         /\ pc' = IF f.exit = "continue" THEN "loop" ELSE "after"
         /\ UNCHANGED <<script, history, models_to_try, client, tvars, pvars>>

\* the rest of an iteration once its flow f is known
Continue(f, resp, req) ==
    IF f.exit = "raise"
    THEN Leave(Append(requests, req), Raised(f.raised, f.last_error))
    ELSE /\ requests' = Append(requests, req)
         /\ response' = resp
         /\ analysis_data' = f.analysis_data
         /\ last_error' = f.last_error
         /\ idx' = IF f.exit = "continue" THEN idx + 1 ELSE idx
         /\ pc' = IF f.exit = "continue" THEN "loop" ELSE "after"
         /\ UNCHANGED <<script, history, models_to_try, client, tvars, pvars>>

\* an iteration whose create(...) raises: response keeps its earlier value
RequestRaises ==
    /\ InLoop
    /\ \E type \in RequestErrors :
         Continue(Handle(analysis_data, last_error, response, Error(type, "create", idx)),
                  response, Request(type, NoResponse))

\* an iteration whose create(...) returns a response
RequestReturns ==
    /\ InLoop
    /\ \E resp \in Responses :
         LET p == TryParse(resp, idx)
         IN  Continue(IF p.exc = NoError
                      THEN TrySuccess(p.val, last_error)
                      ELSE Handle(analysis_data, last_error, resp, p.exc),
                      resp, Request("none", resp))

AfterLoop == pc = "after" \/ (pc = "loop" /\ idx > Len(models_to_try))

\* if analysis_data is None: raise Exception(...)
RaiseExhausted ==
    /\ AfterLoop
    /\ analysis_data = PyNone
    /\ Leave(requests, Exhausted(last_error))

\* return analysis_data
Return ==
    /\ AfterLoop
    /\ analysis_data # PyNone
    /\ Leave(requests, Returned(analysis_data))

Next ==
    \/ AnalyzeMeeting
    \/ RequestRaises
    \/ RequestReturns
    \/ RaiseExhausted
    \/ Return

Spec == Init /\ [][Next]_vars

\* every request completes and the interpreter goes on running: a step that
\* can be taken is taken
LiveInit ==
    /\ ServiceInit
    /\ model_size = "base"
    /\ PipelineOff
    /\ \E a \in Args : AnalysisIdle(<<a>>)

LiveSpec == LiveInit /\ [][Next]_vars /\ WF_vars(Next)

(***************************************************************************)
(* TranscriptionService: load_model, transcribe_audio_file and             *)
(* transcribe_uploaded_file.                                               *)
(***************************************************************************)
LoadOutcomes == {"ok"} \cup LoadCauses

\* load_model with the model built again on every call
load_model_Always(mdl, inst, attempts, outcome) ==
    IF outcome = "ok"
    THEN [model |-> inst + 1, instantiated |-> inst + 1,
          load_attempts |-> attempts + 1, exc |-> "none"]
    ELSE [model |-> mdl, instantiated |-> inst,
          load_attempts |-> attempts + 1, exc |-> outcome]

\* load_model with self.model set although WhisperModel(...) failed
load_model_HalfLoaded(mdl, inst, attempts, outcome) ==
    IF mdl # 0
    THEN [model |-> mdl, instantiated |-> inst, load_attempts |-> attempts,
          exc |-> "none"]
    ELSE IF outcome = "ok"
    THEN [model |-> inst + 1, instantiated |-> inst + 1,
          load_attempts |-> attempts + 1, exc |-> "none"]
    ELSE [model |-> inst + 1, instantiated |-> inst,
          load_attempts |-> attempts + 1, exc |-> outcome]

\* load_model: what it leaves in self.model, how many models have been built,
\* how often WhisperModel(...) has been called, and the failure it wraps and
\* raises.  A model handle is the number of the build that made it.
load_model(mdl, inst, attempts, outcome) ==
    IF mdl # 0
    THEN [model |-> mdl, instantiated |-> inst, load_attempts |-> attempts,
          exc |-> "none"]
    ELSE IF outcome = "ok"
    THEN [model |-> inst + 1, instantiated |-> inst + 1,
          load_attempts |-> attempts + 1, exc |-> "none"]
    ELSE [model |-> mdl, instantiated |-> inst,
          load_attempts |-> attempts + 1, exc |-> outcome]

\* the first position of each method
Entry(op) ==
    IF op = "load_model" THEN "lm"
    ELSE IF op = "transcribe_audio_file" THEN "ta_load"
    ELSE "tu_create"

\* the caller enters method op
Invoke(op) ==
    /\ top = "none"
    /\ top' = op
    /\ tpc' = Entry(op)
    /\ ncalls' = ncalls + 1
    /\ segments' = NoGenerator
    /\ info' = NoInfo
    /\ transcription_text' = <<>>
    /\ reads' = <<>>
    /\ temp_file' = 0
    /\ temp_file_path' = 0
    /\ pending' = NoResult
    /\ tlast' = TCall(op, Engine(model_size, model, load_attempts, model_calls),
                      NoGenerator, <<>>, 0, NoResult)
    /\ UNCHANGED <<model_size, model, instantiated, load_attempts, model_calls, disk>>

\* the running call hands result back to its caller; its locals are gone
Finish(result, gen, rd, eng, dsk) ==
    /\ tlast' = TCall(top, tlast.before, gen, rd, temp_file, result)
    /\ top' = "none"
    /\ tpc' = "none"
    /\ segments' = NoGenerator
    /\ info' = NoInfo
    /\ transcription_text' = <<>>
    /\ reads' = <<>>
    /\ temp_file' = 0
    /\ temp_file_path' = 0
    /\ pending' = NoResult
    /\ model' = eng.model
    /\ instantiated' = eng.instantiated
    /\ load_attempts' = eng.load_attempts
    /\ disk' = dsk
    /\ UNCHANGED <<model_size, ncalls, avars, pvars>>

\* the engine with its model dropped
SameEngine_Unloads ==
    [model |-> 0, instantiated |-> instantiated,
     load_attempts |-> load_attempts, exc |-> "none"]

\* the engine as no load touches it
SameEngine ==
    [model |-> model, instantiated |-> instantiated,
     load_attempts |-> load_attempts, exc |-> "none"]

\* transcribe_audio_file is left with result: to the caller, or back into
\* transcribe_uploaded_file
ExitAudio(result, gen, rd, eng) ==
    IF top = "transcribe_audio_file"
    THEN Finish(result, gen, rd, eng, disk)
    ELSE /\ pending' = result
         /\ tpc' = "tu_exit"
         /\ segments' = gen
         /\ reads' = rd
         /\ model' = eng.model
         /\ instantiated' = eng.instantiated
         /\ load_attempts' = eng.load_attempts
         /\ UNCHANGED <<model_size, top, info, transcription_text, temp_file,
                        temp_file_path, disk, ncalls, tlast, avars, pvars>>

\* a caller other than the pipeline
CallLoadModel ==
    /\ ppc = "off"
    /\ ncalls < MaxCalls
    /\ Invoke("load_model")
    /\ UNCHANGED <<avars, pvars>>

CallTranscribeAudioFile ==
    /\ ppc = "off"
    /\ ncalls < MaxCalls
    /\ Invoke("transcribe_audio_file")
    /\ UNCHANGED <<avars, pvars>>

CallTranscribeUploadedFile ==
    /\ ppc = "off"
    /\ ncalls < MaxCalls
    /\ Invoke("transcribe_uploaded_file")
    /\ UNCHANGED <<avars, pvars>>

\* load_model() called by the caller
LoadModel ==
    /\ tpc = "lm"
    /\ UNCHANGED model_calls
    /\ \E o \in LoadOutcomes :
         LET r == load_model(model, instantiated, load_attempts, o)
         IN  Finish(IF r.exc = "none"
                    THEN TReturned(<<>>, NoInfo, r.model)
                    ELSE LoadError(r.exc),
                    NoGenerator, <<>>, r, disk)

\* the lazy load moved inside the try block: its failure is wrapped again
EnsureLoaded_InsideTry ==
    /\ tpc = "ta_load"
    /\ UNCHANGED model_calls
    /\ \E o \in LoadOutcomes :
         LET r == IF model = 0
                  THEN load_model(model, instantiated, load_attempts, o)
                  ELSE [model |-> model, instantiated |-> instantiated,
                        load_attempts |-> load_attempts, exc |-> "none"]
         IN  IF r.exc = "none"
             THEN /\ model' = r.model
                  /\ instantiated' = r.instantiated
                  /\ load_attempts' = r.load_attempts
                  /\ tpc' = "ta_call"
                  /\ UNCHANGED <<model_size, top, segments, info, transcription_text,
                                 reads, temp_file, temp_file_path, pending, disk,
                                 ncalls, tlast, avars, pvars>>
             ELSE ExitAudio(TranscriptionError(r.exc), segments, reads, r)

\* if self.model is None: self.load_model()  -- outside the try block
EnsureLoaded ==
    /\ tpc = "ta_load"
    /\ UNCHANGED model_calls
    /\ \E o \in LoadOutcomes :
         LET r == IF model = 0
                  THEN load_model(model, instantiated, load_attempts, o)
                  ELSE SameEngine
         IN  IF r.exc = "none"
             THEN /\ model' = r.model
                  /\ instantiated' = r.instantiated
                  /\ load_attempts' = r.load_attempts
                  /\ tpc' = "ta_call"
                  /\ UNCHANGED <<model_size, top, segments, info, transcription_text,
                                 reads, temp_file, temp_file_path, pending, disk,
                                 ncalls, tlast, avars, pvars>>
             ELSE ExitAudio(LoadError(r.exc), segments, reads, r)

\* the except clause of transcribe_audio_file with the text and the metadata
\* gathered so far handed back
TranscribeExcept_Partial(text, i, cause) ==
    TReturned(Strip(text), [language |-> i.language,
                            language_probability |-> i.language_probability,
                            duration |-> i.duration], 0)

\* except Exception as e: raise Exception(f"Error during transcription: {str(e)}")
TranscribeExcept(text, i, cause) == TranscriptionError(cause)

\* self.model.transcribe(...) raises
ModelTranscribeRaises ==
    /\ tpc = "ta_call"
    /\ model_calls' = model_calls + 1
    /\ \E cause \in DecodeCauses :
         ExitAudio(TranscribeExcept(transcription_text, info, cause),
                   FailedCall, reads, SameEngine)

\* segments, info = self.model.transcribe(...); transcription_text = ""
ModelTranscribeReturns ==
    /\ tpc = "ta_call"
    /\ model_calls' = model_calls + 1
    /\ \E g \in Generators, i \in Infos :
         /\ segments' = g
         /\ info' = i
    /\ transcription_text' = <<>>
    /\ tpc' = "ta_iter"
    /\ UNCHANGED <<model_size, model, instantiated, load_attempts, top, reads,
                   temp_file, temp_file_path, pending, disk, ncalls, tlast,
                   avars, pvars>>

\* the for loop left after its first segment
LoopDone_AfterFirst(gen) == gen.pos >= 1 \/ gen.pos >= Len(gen.segs)

\* the for loop ends when the sequence has no segment left
LoopDone(gen) == gen.pos >= Len(gen.segs)

\* the segment put in front of the text
AppendSegment_Prepend(text, seg) == seg \o <<" ">> \o text

\* transcription_text += segment.text + " "
AppendSegment(text, seg) == text \o seg \o <<" ">>

\* transcription_text.strip()
FinalText(text) == Strip(text)

\* the metadata dict built from info
Metadata(i) ==
    [language |-> i.language, language_probability |-> i.language_probability,
     duration |-> i.duration]

\* one iteration of the for loop
ReadSegment ==
    /\ tpc = "ta_iter"
    /\ UNCHANGED model_calls
    /\ ~LoopDone(segments)
    /\ segments.fail_at # segments.pos + 1
    /\ transcription_text' =
          AppendSegment(transcription_text, segments.segs[segments.pos + 1])
    /\ segments' = [segments EXCEPT !.pos = @ + 1]
    /\ reads' = Append(reads, segments.pos + 1)
    /\ UNCHANGED <<model_size, model, instantiated, load_attempts, top, tpc, info,
                   temp_file, temp_file_path, pending, disk, ncalls, tlast,
                   avars, pvars>>

\* the sequence raises when asked for its next segment: except Exception
SegmentRaises ==
    /\ tpc = "ta_iter"
    /\ UNCHANGED model_calls
    /\ segments.fail_at = segments.pos + 1
    /\ \E cause \in DecodeCauses :
         ExitAudio(TranscribeExcept(transcription_text, info, cause),
                   segments, reads, SameEngine)

\* the loop is over: strip, metadata, return
SegmentsEnd ==
    /\ tpc = "ta_iter"
    /\ UNCHANGED model_calls
    /\ LoopDone(segments)
    /\ segments.fail_at # segments.pos + 1
    /\ ExitAudio(TReturned(FinalText(transcription_text), Metadata(info), 0),
                 segments, reads, SameEngine)

\* an exception raised inside the try block of transcribe_uploaded_file
UploadFails(cause) ==
    /\ pending' = TRaised("OSError", cause)
    /\ tpc' = "tu_exit"

\* temp_file = tempfile.NamedTemporaryFile(delete=False, suffix=...)
CreateTemp ==
    /\ tpc = "tu_create"
    /\ UNCHANGED model_calls
    /\ \/ /\ temp_file' = ncalls
          /\ disk' = disk \cup {ncalls}
          /\ tpc' = "tu_write"
          /\ UNCHANGED pending
       \/ /\ UploadFails("create")
          /\ UNCHANGED <<temp_file, disk>>
    /\ UNCHANGED <<model_size, model, instantiated, load_attempts, top, segments,
                   info, transcription_text, reads, temp_file_path, ncalls, tlast,
                   avars, pvars>>

\* temp_file.write(uploaded_file.getbuffer()); temp_file_path = temp_file.name
WriteTemp ==
    /\ tpc = "tu_write"
    /\ UNCHANGED model_calls
    /\ \/ /\ temp_file_path' = temp_file
          /\ tpc' = "tu_close"
          /\ UNCHANGED pending
       \/ /\ UploadFails("write")
          /\ UNCHANGED temp_file_path
    /\ UNCHANGED <<model_size, model, instantiated, load_attempts, top, segments,
                   info, transcription_text, reads, temp_file, disk, ncalls, tlast,
                   avars, pvars>>

\* temp_file.close(), then on to self.transcribe_audio_file(temp_file_path, ...)
CloseTemp ==
    /\ tpc = "tu_close"
    /\ UNCHANGED model_calls
    /\ \/ /\ tpc' = "ta_load"
          /\ UNCHANGED pending
       \/ UploadFails("close")
    /\ UNCHANGED <<model_size, model, instantiated, load_attempts, top, segments,
                   info, transcription_text, reads, temp_file, temp_file_path, disk,
                   ncalls, tlast, avars, pvars>>

\* if temp_file_path and os.path.exists(temp_file_path): os.unlink(temp_file_path)
Cleanup(dsk, path) == IF path # 0 THEN dsk \ {path} ELSE dsk

\* the except and finally clauses of transcribe_uploaded_file, then the
\* return or the re-raise
ExitUploaded ==
    /\ tpc = "tu_exit"
    /\ UNCHANGED model_calls
    /\ Finish(pending, segments, reads, SameEngine, Cleanup(disk, temp_file_path))

TNext ==
    \/ CallLoadModel
    \/ CallTranscribeAudioFile
    \/ CallTranscribeUploadedFile
    \/ LoadModel
    \/ EnsureLoaded
    \/ ModelTranscribeRaises
    \/ ModelTranscribeReturns
    \/ ReadSegment
    \/ SegmentRaises
    \/ SegmentsEnd
    \/ CreateTemp
    \/ WriteTemp
    \/ CloseTemp
    \/ ExitUploaded

TInit == ServiceInit /\ PipelineOff /\ AnalysisIdle(<<>>)

TSpec == TInit /\ [][TNext]_vars

(***************************************************************************)
(* The front end (src/frontend/app.py): one run of the pipeline started by *)
(* the "Analyze Meeting" button, on a TranscriptionService and the         *)
(* AnalysisService.                                                        *)
(***************************************************************************)
\* the summary the front end shows when analyze_meeting raises
PlaceholderSummary ==
    <<"E", "r", "r", "o", "r", " ", "d", "u", "r", "i", "n", "g", " ", "a",
      "n", "a", "l", "y", "s", "i", "s", ".", " ", "P", "l", "e", "a", "s",
      "e", " ", "c", "h", "e", "c", "k", " ", "y", "o", "u", "r", " ", "G",
      "r", "o", "q", " ", "A", "P", "I", " ", "k", "e", "y", ".">>

Placeholder ==
    PyDict(SetItem(SetItem(EmptyMap, resume_executif, PyStr(PlaceholderSummary)),
                   action_items, PyList(<<>>)))

\* the defaults of the .get calls of the tabs
NoSummaryAvailable ==
    PyStr(<<"N", "o", " ", "s", "u", "m", "m", "a", "r", "y", " ", "a", "v",
            "a", "i", "l", "a", "b", "l", "e">>)
TaskNotSpecified ==
    PyStr(<<"T", "a", "s", "k", " ", "n", "o", "t", " ", "s", "p", "e", "c",
            "i", "f", "i", "e", "d">>)
NotAssigned ==
    PyStr(<<"N", "o", "t", " ", "a", "s", "s", "i", "g", "n", "e", "d">>)

\* one element put on the page
Event(what, value) == [what |-> what, value |-> value]

\* dict.get(key, default)
DictGet(d, key, default) == IF key \in DOMAIN d.map THEN d.map[key] ELSE default

\* the truth value of a Python value
Truthy(v) ==
    IF v.t = "None" THEN FALSE
    ELSE IF v.t = "str" THEN v.s # <<>>
    ELSE IF v.t = "int" THEN v.n # 0
    ELSE IF v.t = "bool" THEN v.b
    ELSE IF v.t = "list" THEN v.items # <<>>
    ELSE DOMAIN v.map # {}

\* the for loop of tab 3 from item k on: an item that is no dict has no .get
RECURSIVE RenderItems(_, _)
RenderItems(items, k) ==
    IF k > Len(items) THEN <<>>
    ELSE IF items[k].t # "dict" THEN <<Event("exception", PyNone)>>
    ELSE <<Event("item", PyList(<<DictGet(items[k], tache, TaskNotSpecified),
                                  DictGet(items[k], responsable, NotAssigned)>>))>>
         \o RenderItems(items, k + 1)

\* tab 2 and tab 3 on analysis_data ad
RenderAnalysis(ad) ==
    IF ad.t # "dict" THEN <<Event("exception", PyNone)>>
    ELSE LET items == DictGet(ad, action_items, PyList(<<>>))
         IN  <<Event("summary", DictGet(ad, resume_executif, NoSummaryAvailable))>>
             \o (IF ~Truthy(items) THEN <<Event("no action items", PyNone)>>
                 ELSE IF items.t = "list" THEN RenderItems(items.items, 1)
                 ELSE <<Event("exception", PyNone)>>)

\* the control flow of the run with a failed analysis stopping it
NextStage_AnalysisFatal(stage, ok) ==
    IF stage = "ready" THEN "step1"
    ELSE IF stage = "step1" THEN (IF ok THEN "step2" ELSE "stopped")
    ELSE IF stage = "step2" THEN (IF ok THEN "step3" ELSE "stopped")
    ELSE IF stage = "step3" THEN (IF ok THEN "render" ELSE "stopped")
    ELSE "done"

\* the control flow of the run with a failed transcription passed over
NextStage_TranscriptionNotFatal(stage, ok) ==
    IF stage = "ready" THEN "step1"
    ELSE IF stage = "step1" THEN (IF ok THEN "step2" ELSE "stopped")
    ELSE IF stage = "step2" THEN "step3"
    ELSE IF stage = "step3" THEN "render"
    ELSE "done"

\* the control flow of the run: where it goes after stage, which went well
\* (ok) or raised.  st.stop() ends the run; the except clause of step 3 does
\* not.
NextStage(stage, ok) ==
    IF stage = "ready" THEN "step1"
    ELSE IF stage = "step1" THEN (IF ok THEN "step2" ELSE "stopped")
    ELSE IF stage = "step2" THEN (IF ok THEN "step3" ELSE "stopped")
    ELSE IF stage = "step3" THEN "render"
    ELSE "done"

\* the button is clicked.  STEP 1: transcription_service.load_model()
PStart ==
    /\ ppc = "ready"
    /\ ppc' = NextStage("ready", TRUE)
    /\ stages' = Append(stages, "load")
    /\ Invoke("load_model")
    /\ UNCHANGED <<avars, shown, fe_text, fe_analysis>>

\* load_model is over.  It raised: st.error, st.stop().  Otherwise STEP 2:
\* transcription_service.transcribe_uploaded_file(uploaded_file, ...)
PAfterLoad ==
    /\ ppc = "step1"
    /\ top = "none"
    /\ LET ok == tlast.result.kind = "return"
           nxt == NextStage("step1", ok)
       IN  /\ ppc' = nxt
           /\ IF nxt = "step2"
              THEN /\ Invoke("transcribe_uploaded_file")
                   /\ stages' = Append(stages, "transcribe")
              ELSE UNCHANGED <<tvars, stages>>
           /\ shown' = IF ok THEN shown
                       ELSE Append(shown, Event("error: load", PyNone))
    /\ UNCHANGED <<avars, fe_text, fe_analysis>>

\* transcribe_uploaded_file is over.  It raised: st.error, st.stop().
\* Otherwise st.success, then STEP 3: analysis_service.analyze_meeting(text)
PAfterTranscribe ==
    /\ ppc = "step2"
    /\ top = "none"
    /\ LET ok == tlast.result.kind = "return"
           nxt == NextStage("step2", ok)
       IN  /\ ppc' = nxt
           /\ fe_text' = IF ok THEN tlast.result.text ELSE fe_text
           /\ shown' = Append(shown, IF ok THEN Event("success", PyNone)
                                     ELSE Event("error: transcription", PyNone))
           /\ IF nxt = "step3"
              THEN /\ script' = <<WithText(NoneArg, tlast.result.text)>>
                   /\ stages' = Append(stages, "analyze")
              ELSE UNCHANGED <<script, stages>>
    /\ UNCHANGED <<pc, models_to_try, idx, analysis_data, last_error, response,
                   requests, history, client, tvars, fe_analysis>>

\* analyze_meeting is over.  It raised: st.error and the placeholder.  Then
\* the results are displayed.
PAfterAnalyze ==
    /\ ppc = "step3"
    /\ pc = "idle"
    /\ script = <<>>
    /\ history # <<>>
    /\ LET ok == Last(history).result.kind = "return"
           nxt == NextStage("step3", ok)
       IN  /\ ppc' = nxt
           /\ fe_analysis' = IF ok THEN Last(history).result.value ELSE Placeholder
           /\ shown' = IF ok THEN shown
                       ELSE Append(shown, Event("error: analysis", PyNone))
           /\ stages' = IF nxt = "render" THEN Append(stages, "render") ELSE stages
    /\ UNCHANGED <<avars, tvars, fe_text>>

\* tab 1: the text area with the transcription
PRenderTranscript ==
    /\ ppc = "render"
    /\ shown' = Append(shown, Event("transcript", PyStr(fe_text)))
    /\ ppc' = "tabs"
    /\ UNCHANGED <<avars, tvars, stages, fe_text, fe_analysis>>

\* tab 2 and tab 3: the summary and the action items
PRenderAnalysis ==
    /\ ppc = "tabs"
    /\ LET ev == RenderAnalysis(fe_analysis)
       IN  /\ shown' = shown \o ev
           /\ ppc' = IF Last(ev).what = "exception" THEN "crashed" ELSE "done"
    /\ UNCHANGED <<avars, tvars, stages, fe_text, fe_analysis>>

PNext ==
    \/ PStart
    \/ LoadModel
    \/ PAfterLoad
    \/ CreateTemp
    \/ WriteTemp
    \/ CloseTemp
    \/ EnsureLoaded
    \/ ModelTranscribeRaises
    \/ ModelTranscribeReturns
    \/ ReadSegment
    \/ SegmentRaises
    \/ SegmentsEnd
    \/ ExitUploaded
    \/ PAfterTranscribe
    \/ AnalyzeMeeting
    \/ RequestRaises
    \/ RequestReturns
    \/ RaiseExhausted
    \/ Return
    \/ PAfterAnalyze
    \/ PRenderTranscript
    \/ PRenderAnalysis

PInit ==
    /\ ServiceInit
    /\ AnalysisIdle(<<>>)
    /\ ppc = "ready"
    /\ stages = <<>>
    /\ shown = <<>>
    /\ fe_text = <<>>
    /\ fe_analysis = PyNone

PSpec == PInit /\ [][PNext]_vars

(***************************************************************************)
(* Vocabulary of the properties.                                           *)
(***************************************************************************)
ListOf(arg) == IF arg.isNone THEN DefaultModels ELSE arg.list

\* the request logs of the finished calls and of the running call, each with
\* the candidate list it walks
Logs ==
    {[list |-> ListOf(history[i].arg), requests |-> history[i].requests] :
        i \in DOMAIN history}
    \cup (IF pc = "idle" THEN {}
          ELSE {[list |-> models_to_try, requests |-> requests]})

Finished == {history[i] : i \in DOMAIN history}

\* the request failed at request level: create(...) raised, no response exists
FailedAtRequestLevel(req) == req.raised # "none"
\* the request returned a response that carries content (a str)
HasContent(req) ==
    /\ req.raised = "none"
    /\ Len(req.response.choices) > 0
    /\ ~req.response.choices[1].isNone
\* the request returned a response without choices or without content
NoContentResponse(req) == req.raised = "none" /\ ~HasContent(req)
ContentOf(req) == req.response.choices[1].s
Parses(req) == HasContent(req) /\ json_loads(ContentOf(req)).ok
Unparseable(req) == HasContent(req) /\ ~json_loads(ContentOf(req)).ok
\* the content is a JSON object, the structure the request asks for
WellFormed(req) == Parses(req) /\ json_loads(ContentOf(req)).val.t = "dict"

IsPrefix(s, r) == Len(s) <= Len(r) /\ \A i \in DOMAIN s : s[i] = r[i]

InListOrder(log) ==
    \A k \in DOMAIN log.requests :
        /\ k <= Len(log.list)
        /\ log.requests[k].pos = k
        /\ log.requests[k].model = log.list[k]

(***************************************************************************)
(* C1 as stated: the requests of one call go to the list positions 1, 2,   *)
(* ... in order, one per position, and a request is issued only after the  *)
(* request before it failed at request level.                              *)
(***************************************************************************)
C1_Original ==
    \A log \in Logs :
        /\ InListOrder(log)
        /\ \A k \in DOMAIN log.requests :
              k > 1 => FailedAtRequestLevel(log.requests[k - 1])

(***************************************************************************)
(* C1 amended: the requests of one call go to the list positions 1, 2, ... *)
(* in order, one per position, and a request is issued only after the      *)
(* request before it failed at request level or returned a response        *)
(* without choices or without content.                                     *)
(***************************************************************************)
C1_InOrderAfterFailure ==
    \A log \in Logs :
        /\ InListOrder(log)
        /\ \A k \in DOMAIN log.requests :
              k > 1 => \/ FailedAtRequestLevel(log.requests[k - 1])
                       \/ NoContentResponse(log.requests[k - 1])

C1_Witness ==
    \E h \in Finished :
        /\ Len(h.requests) >= 2
        /\ FailedAtRequestLevel(h.requests[1])
        /\ HasContent(h.requests[2])

(***************************************************************************)
(* C2: once a request returns content that parses as a JSON object, the    *)
(* loop is over: that request is the last of the call, and the call        *)
(* returns the parsed object.                                              *)
(***************************************************************************)
C2_WellFormedReturnsAtOnce ==
    /\ \A k \in DOMAIN requests :
          WellFormed(requests[k]) => k = Len(requests) /\ pc = "after"
    /\ \A h \in Finished :
          \A k \in DOMAIN h.requests :
              WellFormed(h.requests[k]) =>
                  /\ k = Len(h.requests)
                  /\ h.result = Returned(json_loads(ContentOf(h.requests[k])).val)

C2_Witness ==
    \E h \in Finished :
        /\ Len(ListOf(h.arg)) >= 2
        /\ Len(h.requests) = 1
        /\ WellFormed(h.requests[1])
        /\ h.result.kind = "return"

(***************************************************************************)
(* C3: once a request returns content that does not parse, the loop is     *)
(* over: that request is the last of the call, and the call returns a      *)
(* degraded result whose summary is taken from that content and whose      *)
(* action item list is empty.                                              *)
(***************************************************************************)
C3_UnparseableEndsLoop ==
    /\ \A k \in DOMAIN requests :
          Unparseable(requests[k]) => k = Len(requests) /\ pc = "after"
    /\ \A h \in Finished :
          \A k \in DOMAIN h.requests :
              Unparseable(h.requests[k]) =>
                  /\ k = Len(h.requests)
                  /\ h.result.kind = "return"
                  /\ h.result.value.t = "dict"
                  /\ DOMAIN h.result.value.map = {resume_executif, action_items}
                  /\ IsPrefix(h.result.value.map[resume_executif].s,
                              ContentOf(h.requests[k]))

C3_Witness ==
    \E h \in Finished :
        /\ Len(ListOf(h.arg)) >= 2
        /\ Len(h.requests) = 1
        /\ Unparseable(h.requests[1])
        /\ h.result.kind = "return"

(***************************************************************************)
(* C4: the summary of a degraded result is the first 500 characters of the *)
(* raw content when the content is longer than 500 characters and the      *)
(* whole content otherwise; its action_items is the empty list.            *)
(***************************************************************************)
C4_DegradedSummary ==
    \A h \in Finished :
        \A k \in DOMAIN h.requests :
            Unparseable(h.requests[k]) =>
                LET raw == ContentOf(h.requests[k])
                    v == h.result.value
                IN  /\ h.result.kind = "return"
                    /\ v.t = "dict"
                    /\ DOMAIN v.map = {resume_executif, action_items}
                    /\ v.map[action_items] = PyList(<<>>)
                    /\ v.map[resume_executif].t = "str"
                    /\ Len(raw) > 500 =>
                          /\ Len(v.map[resume_executif].s) = 500
                          /\ \A i \in 1..500 : v.map[resume_executif].s[i] = raw[i]
                    /\ Len(raw) <= 500 => v.map[resume_executif].s = raw

C4_Witness ==
    \E h \in Finished :
        /\ h.requests # <<>>
        /\ Unparseable(Last(h.requests))
        /\ Len(ContentOf(Last(h.requests))) > 500
        /\ h.result.kind = "return"
        /\ Len(h.result.value.map[resume_executif].s) = 500

(***************************************************************************)
(* C5: when the list is not empty and every request of the call fails at   *)
(* request level, every candidate has been requested and the call raises   *)
(* the exhaustion error, whose cause is the failure of the last candidate  *)
(* of the list.                                                            *)
(***************************************************************************)
C5_ExhaustionCarriesLastCause ==
    \A h \in Finished :
        (/\ ListOf(h.arg) # <<>>
         /\ \A k \in DOMAIN h.requests : FailedAtRequestLevel(h.requests[k]))
        => LET n == Len(ListOf(h.arg))
           IN  /\ Len(h.requests) = n
               /\ h.result.kind = "raise"
               /\ h.result.error = Error("Exception", "exhausted", 0)
               /\ h.result.cause = Error(h.requests[n].raised, "create", n)

C5_Witness ==
    \E h \in Finished :
        /\ Len(h.requests) >= 2
        /\ \A k \in DOMAIN h.requests : FailedAtRequestLevel(h.requests[k])
        /\ h.requests[1].raised # Last(h.requests).raised
        /\ h.result.kind = "raise"

(***************************************************************************)
(* C6 as stated: a call in which some request returned a response carrying *)
(* content returns a result; it does not raise.                            *)
(***************************************************************************)
C6_ContentNeverRaises ==
    \A h \in Finished :
        (\E k \in DOMAIN h.requests : HasContent(h.requests[k]))
            => h.result.kind = "return"

(***************************************************************************)
(* C7: a call with the list [A, ..., B] in which every candidate before B  *)
(* fails at request level returns what a call with [B] alone returns, when *)
(* B answers both calls with the same well-formed response.                *)
(***************************************************************************)
C7_Case(h1, h2) ==
    LET n == Len(ListOf(h1.arg))
    IN  /\ n >= 2
        /\ ListOf(h2.arg) = <<Last(ListOf(h1.arg))>>
        /\ Len(h2.requests) = 1
        /\ WellFormed(h2.requests[1])
        /\ \A k \in DOMAIN h1.requests :
              /\ k < n => FailedAtRequestLevel(h1.requests[k])
              /\ k = n => /\ h1.requests[k].raised = "none"
                          /\ h1.requests[k].response = h2.requests[1].response

C7_SameAsLastAlone ==
    Len(history) = 2 /\ C7_Case(history[1], history[2])
        => /\ history[1].result.kind = "return"
           /\ history[1].result = history[2].result

C7_Witness ==
    /\ Len(history) = 2
    /\ C7_Case(history[1], history[2])
    /\ Len(history[1].requests) = Len(ListOf(history[1].arg))
    /\ history[2].result.kind = "return"

(***************************************************************************)
(* C8 as stated: when the served response is a JSON object in which an     *)
(* action item has no "responsable" field, that item of the returned       *)
(* result has a "responsable" field equal to the sentinel                  *)
(* "To be determined".                                                     *)
(***************************************************************************)
ItemsOf(v) ==
    IF v.t = "dict" /\ action_items \in DOMAIN v.map /\ v.map[action_items].t = "list"
    THEN v.map[action_items].items
    ELSE <<>>

LacksOwner(item) == item.t = "dict" /\ responsable \notin DOMAIN item.map

C8_MissingOwnerIsSentinel ==
    \A h \in Finished :
        (h.requests # <<>> /\ WellFormed(Last(h.requests))) =>
            LET sent == ItemsOf(json_loads(ContentOf(Last(h.requests))).val)
                got == ItemsOf(h.result.value)
            IN  \A i \in DOMAIN sent :
                    LacksOwner(sent[i]) =>
                        /\ i \in DOMAIN got
                        /\ got[i].t = "dict"
                        /\ responsable \in DOMAIN got[i].map
                        /\ got[i].map[responsable] = PyStr(ToBeDetermined)

(***************************************************************************)
(* C9 as stated: every value a call returns is a record with a summary     *)
(* (resume_executif, a string) and an action_items sequence.               *)
(***************************************************************************)
C9_ResultHasBothFields ==
    \A h \in Finished :
        h.result.kind = "return" =>
            LET v == h.result.value
            IN  /\ v.t = "dict"
                /\ {resume_executif, action_items} \subseteq DOMAIN v.map
                /\ v.map[resume_executif].t = "str"
                /\ v.map[action_items].t = "list"

(***************************************************************************)
(* C10: a served object with a summary and action items that each have a   *)
(* task and an owner is returned unchanged: the same summary, the same     *)
(* number of items in the same order, the same task and owner in each.     *)
(***************************************************************************)
ItemValue(task, owner) ==
    PyDict(SetItem(SetItem(EmptyMap, tache, PyStr(task)), responsable, PyStr(owner)))

ObjectValue(summary, items) ==
    PyDict(SetItem(SetItem(EmptyMap, resume_executif, PyStr(summary)),
                   action_items, PyList(items)))

\* the value each complete object of StructuredContents stands for
Expected(c) ==
    IF c = RoundTripContent
    THEN ObjectValue(TeamSummary, <<ItemValue(FinishReport, Alice)>>)
    ELSE IF c = TwoItemsContent
    THEN ObjectValue(TeamSummary,
                     <<ItemValue(SendMinutes, Bob), ItemValue(FinishReport, Alice)>>)
    ELSE ObjectValue(TeamSummary, <<>>)

CompleteContents == {RoundTripContent, TwoItemsContent, NoItemsContent}

C10_ObjectReturnedUnchanged ==
    \A h \in Finished :
        (/\ h.requests # <<>>
         /\ HasContent(Last(h.requests))
         /\ ContentOf(Last(h.requests)) \in CompleteContents)
        => h.result = Returned(Expected(ContentOf(Last(h.requests))))

C10_Witness ==
    \E h \in Finished :
        /\ h.requests # <<>>
        /\ HasContent(Last(h.requests))
        /\ ContentOf(Last(h.requests)) = TwoItemsContent
        /\ h.result.kind = "return"
        /\ Len(h.result.value.map[action_items].items) = 2
        /\ h.result.value.map[action_items].items[2].map[responsable] = PyStr(Alice)

(***************************************************************************)
(* C11: no per-candidate failure leaves analyze_meeting on its own:        *)
(* whatever the backend does, a call that raises raises the exhaustion     *)
(* error, the one raised after the loop has ended.                         *)
(***************************************************************************)
C11_OnlyExhaustionRaised ==
    \A h \in Finished :
        h.result.kind = "raise" => h.result.error = Error("Exception", "exhausted", 0)

(***************************************************************************)
(* Vocabulary of the claims about TranscriptionService.                    *)
(***************************************************************************)
\* the call recorded in tlast has been left, by return or by raise
TOver == top = "none" /\ tlast.op # "none"
TReturnedFrom(op) == TOver /\ tlast.op = op /\ tlast.result.kind = "return"
TRaisedFrom(op) == TOver /\ tlast.op = op /\ tlast.result.kind = "raise"
TranscribeOps == {"transcribe_audio_file", "transcribe_uploaded_file"}

(***************************************************************************)
(* C12: once transcribe_uploaded_file has returned or raised, by whatever  *)
(* exit path, the temporary audio file it created is not on disk.          *)
(***************************************************************************)
C12_TempFileAbsent ==
    (TOver /\ tlast.op = "transcribe_uploaded_file") => tlast.temp_file \notin disk

(***************************************************************************)
(* Vocabulary of the claims about the pipeline.                            *)
(***************************************************************************)
ShownEvents == {shown[i] : i \in DOMAIN shown}
\* the run is over: displayed, ended by an exception in a tab, or stopped
PEnded == ppc \in {"done", "crashed", "stopped"}
\* the transcription stage has returned a transcript
Transcribed ==
    /\ top = "none"
    /\ tlast.op = "transcribe_uploaded_file"
    /\ tlast.result.kind = "return"
\* the transcription stage has raised
TranscriptionFailed ==
    /\ top = "none"
    /\ tlast.op = "transcribe_uploaded_file"
    /\ tlast.result.kind = "raise"
StageOrder == <<"load", "transcribe", "analyze", "render">>

(***************************************************************************)
(* C13: the failures of the two stages are decoupled.  A run in which the  *)
(* transcription succeeded shows the transcript, whatever analyze_meeting  *)
(* did; when analyze_meeting raises, the run goes on to the display with   *)
(* the placeholder summary and no action item.                             *)
(***************************************************************************)
C13_AnalysisFailureKeepsTranscript ==
    /\ (PEnded /\ Transcribed)
          => Event("transcript", PyStr(tlast.result.text)) \in ShownEvents
    /\ (PEnded /\ history # <<>> /\ history[1].result.kind = "raise")
          => /\ ppc = "done"
             /\ Event("transcript", PyStr(tlast.result.text)) \in ShownEvents
             /\ Event("summary", PyStr(PlaceholderSummary)) \in ShownEvents
             /\ Event("no action items", PyNone) \in ShownEvents
             /\ \A e \in ShownEvents : e.what # "item"

C13_Witness ==
    /\ ppc = "done"
    /\ history # <<>>
    /\ history[1].result.kind = "raise"
    /\ tlast.result.text = <<"H", "i", " ", "o", "k">>
    /\ Event("transcript", PyStr(<<"H", "i", " ", "o", "k">>)) \in ShownEvents
    /\ Event("summary", PyStr(PlaceholderSummary)) \in ShownEvents

(***************************************************************************)
(* C14: the stages run in the order load model, transcribe, analyze,       *)
(* render.  analyze_meeting is entered only once the transcription has     *)
(* returned a transcript; a failed transcription ends the run: no          *)
(* analysis, no display of results, no second transcription.               *)
(***************************************************************************)
C14_StagesInOrder ==
    /\ IsPrefix(stages, StageOrder)
    /\ ncalls <= 2
    /\ (pc # "idle" \/ script # <<>> \/ history # <<>>)
          => (Transcribed /\ fe_text = tlast.result.text)
    /\ TranscriptionFailed
          => /\ ppc \in {"step2", "stopped"}
             /\ stages = <<"load", "transcribe">>
             /\ ncalls = 2
             /\ pc = "idle" /\ script = <<>> /\ history = <<>>
             /\ \A e \in ShownEvents :
                    e.what \notin {"transcript", "summary", "item", "no action items"}

C14_Witness ==
    /\ ppc = "stopped"
    /\ TranscriptionFailed
    /\ tlast.reads = <<1>>
    /\ Event("error: transcription", PyNone) \in ShownEvents

(***************************************************************************)
(* C15: the text a transcription returns is the texts of the segments the  *)
(* model emitted, in emission order, with a single space between them, and *)
(* leading and trailing whitespace trimmed.                                *)
(***************************************************************************)
RECURSIVE JoinWith(_, _)
JoinWith(segs, sep) ==
    IF segs = <<>> THEN <<>>
    ELSE IF Len(segs) = 1 THEN segs[1]
    ELSE segs[1] \o sep \o JoinWith(Tail(segs), sep)

C15_TextIsJoinedSegments ==
    \A op \in TranscribeOps :
        TReturnedFrom(op)
            => tlast.result.text = Strip(JoinWith(tlast.segments.segs, <<" ">>))

C15_Witness ==
    /\ TReturnedFrom("transcribe_audio_file")
    /\ tlast.segments.segs = << <<" ", "H", "i">>, <<"o", "k">> >>
    /\ tlast.result.text = <<"H", "i", " ", "o", "k">>

(***************************************************************************)
(* C16: whenever the model succeeds, the transcription returns a non-empty *)
(* text; it never returns the empty text, not even when the model emits no *)
(* segment or only whitespace segments.                                    *)
(***************************************************************************)
C16_NonEmptyText ==
    \A op \in TranscribeOps : TReturnedFrom(op) => tlast.result.text # <<>>

(***************************************************************************)
(* C17: when the model's transcribe call raises, or the segment sequence   *)
(* raises at any position while it is read, transcribe_audio_file raises   *)
(* the transcription error: it returns no text and no metadata for the     *)
(* segments read before the failure.                                       *)
(***************************************************************************)
\* the model failed in the call: in transcribe itself or at a segment read
ModelFailed(c) ==
    \/ c.segments.fail_at = -1
    \/ c.segments.fail_at = c.segments.pos + 1

C17_FailureIsTranscriptionError ==
    (TOver /\ tlast.op = "transcribe_audio_file" /\ ModelFailed(tlast))
        => /\ tlast.result.kind = "raise"
           /\ tlast.result.msg = "Error during transcription"
           /\ tlast.result.cause \in DecodeCauses
           /\ tlast.result.text = <<>>
           /\ tlast.result.metadata = NoInfo

C17_Witness ==
    /\ TRaisedFrom("transcribe_audio_file")
    /\ Len(tlast.segments.segs) = 2
    /\ tlast.segments.fail_at = 2
    /\ tlast.reads = <<1>>

(***************************************************************************)
(* C18: the model is loaded lazily and at most once per engine.            *)
(* Construction builds no model; the first load_model or transcribe call   *)
(* that gets to loading builds it; a call on a loaded engine builds        *)
(* nothing and load_model returns the handle the engine already holds.     *)
(***************************************************************************)
\* the WhisperModel(...) calls made by the call recorded in tlast
Loads == load_attempts - tlast.before.load_attempts

C18_LoadedLazilyOnce ==
    /\ ncalls = 0 => (model = 0 /\ instantiated = 0)
    /\ instantiated <= 1
    /\ model # 0 => (model = 1 /\ instantiated = 1)
    /\ (tlast.op # "none" /\ tlast.before.model # 0)
          => /\ Loads = 0
             /\ model = tlast.before.model
    /\ (TOver /\ tlast.before.model = 0 /\ tlast.op \in {"load_model", "transcribe_audio_file"}
              /\ tlast.result.msg # "Error loading Whisper model")
          => /\ Loads = 1
             /\ model # 0
    /\ TReturnedFrom("load_model") => tlast.result.handle = model

C18_Witness ==
    /\ ncalls = 2
    /\ TReturnedFrom("load_model")
    /\ tlast.before.model = 1
    /\ tlast.before.load_attempts = 1
    /\ tlast.result.handle = 1
    /\ instantiated = 1

(***************************************************************************)
(* C19: when building the model fails, load_model raises the load error    *)
(* with the underlying cause, the engine is left as it was (no model, the  *)
(* same size selector), the build is attempted once in that call and not   *)
(* again, and a later load_model call attempts the build again.            *)
(***************************************************************************)
C19_LoadFailureLeavesUnloaded ==
    /\ TRaisedFrom("load_model")
          => /\ tlast.result.msg = "Error loading Whisper model"
             /\ tlast.result.cause \in LoadCauses
             /\ tlast.before.model = 0
             /\ model = 0
             /\ instantiated = 0
             /\ model_size = tlast.before.model_size
             /\ Loads = 1
    /\ (TOver /\ tlast.op = "load_model" /\ tlast.before.model = 0) => Loads = 1

C19_Witness ==
    /\ TReturnedFrom("load_model")
    /\ tlast.before.model = 0
    /\ tlast.before.load_attempts = 1
    /\ load_attempts = 2
    /\ model = 1

(***************************************************************************)
(* C20: the lazy segment sequence is read exactly once and to its end      *)
(* before a transcription returns: on a successful return every emitted    *)
(* segment has been read, in order, none twice.                            *)
(***************************************************************************)
C20_SegmentsReadOnceFully ==
    \A op \in TranscribeOps :
        TReturnedFrom(op)
            => /\ tlast.reads = [i \in 1..Len(tlast.segments.segs) |-> i]
               /\ tlast.segments.pos = Len(tlast.segments.segs)

C20_Witness ==
    /\ TReturnedFrom("transcribe_uploaded_file")
    /\ Len(tlast.segments.segs) = 2
    /\ tlast.reads = <<1, 2>>

(***************************************************************************)
(* C21: all requests of one analyze_meeting call carry the same system     *)
(* instruction, the same user message, which embeds the whole transcript   *)
(* verbatim, and the same temperature; two requests of a call differ in    *)
(* the model identifier only.                                              *)
(***************************************************************************)
\* the calls made so far, the running one included, with their transcript
CallsSoFar ==
    {[text |-> history[i].arg.text, requests |-> history[i].requests] :
        i \in DOMAIN history}
    \cup (IF pc = "idle" THEN {}
          ELSE {[text |-> Head(script).text, requests |-> requests]})

\* what a request carries besides the model identifier
Payload(r) ==
    [system |-> r.system, user |-> r.user, temperature |-> r.temperature,
     response_format |-> r.response_format]

EndsWith(s, tail) ==
    /\ Len(tail) <= Len(s)
    /\ SubSeq(s, Len(s) - Len(tail) + 1, Len(s)) = tail

C21_SamePayloadEveryRequest ==
    \A c \in CallsSoFar :
        \A j, k \in DOMAIN c.requests :
            /\ Payload(c.requests[j]) = Payload(c.requests[k])
            /\ EndsWith(c.requests[k].user, c.text)
            /\ c.requests[k].temperature = "0.7"

C21_Witness ==
    \E h \in Finished :
        /\ h.arg.text = <<"{", "\"", "\n", "}">>
        /\ Len(h.requests) = 3
        /\ h.requests[1].model # h.requests[3].model
        /\ EndsWith(h.requests[3].user, h.arg.text)

(***************************************************************************)
(* C22: on a loaded engine transcribe_audio_file is a deterministic,       *)
(* idempotent mapping.  It leaves the engine (model handle, size selector) *)
(* as it found it, whether it returns or raises, and its result is fixed   *)
(* by what the model does in this call, whatever transcriptions succeeded  *)
(* or failed before: no text is carried over from an earlier call.         *)
(***************************************************************************)
C22_TranscribeLeavesEngineAlone ==
    (tlast.op = "transcribe_audio_file" /\ tlast.before.model # 0)
        => /\ model = tlast.before.model
           /\ model_size = tlast.before.model_size
           /\ load_attempts = tlast.before.load_attempts
           /\ TOver
                => IF ModelFailed(tlast)
                   THEN /\ tlast.result.kind = "raise"
                        /\ tlast.result.msg = "Error during transcription"
                   ELSE /\ tlast.result.kind = "return"
                        /\ tlast.result.text =
                              Strip(JoinWith(tlast.segments.segs, <<" ">>))
                        /\ tlast.result.metadata # NoInfo

C22_Witness ==
    /\ TReturnedFrom("transcribe_audio_file")
    /\ tlast.before.model = 1
    /\ tlast.before.model_calls = 1
    /\ tlast.segments.segs = << <<"o", "k">> >>
    /\ tlast.result.text = <<"o", "k">>

(***************************************************************************)
(* C23: the engine follows Unloaded -> ModelLoaded -> (Transcribing ->     *)
(* Idle)*.  The model's transcribe is never called while the engine is     *)
(* Unloaded; a loaded engine never becomes Unloaded again; and when        *)
(* transcribe_audio_file is called on an Unloaded engine whose load fails, *)
(* no transcription is attempted and the call raises the load error, not   *)
(* a transcription error.                                                  *)
(***************************************************************************)
C23_EngineStateMachine ==
    /\ tpc \in {"ta_call", "ta_iter"} => model # 0
    /\ model_calls > tlast.before.model_calls => model # 0
    /\ tlast.before.model # 0 => model = tlast.before.model
    /\ model = 0 => model_calls = 0
    /\ (TOver /\ tlast.op = "transcribe_audio_file" /\ tlast.before.model = 0
              /\ model = 0)
          => /\ tlast.result.kind = "raise"
             /\ tlast.result.msg = "Error loading Whisper model"
             /\ tlast.result.cause \in LoadCauses
             /\ model_calls = tlast.before.model_calls
             /\ tlast.segments = NoGenerator
             /\ tlast.reads = <<>>

C23_Witness ==
    /\ TRaisedFrom("transcribe_audio_file")
    /\ tlast.before.model = 0
    /\ tlast.before.load_attempts = 1
    /\ model = 0
    /\ tlast.result.msg = "Error loading Whisper model"

(***************************************************************************)
(* C24: a degraded result is built from the content of the response to the *)
(* candidate of the current iteration; the response left in `response` by  *)
(* an earlier iteration is never used for a later candidate whose own      *)
(* request produced no response: such a request only moves the call on to  *)
(* the next candidate, or to the exhaustion error when it was the last.    *)
(***************************************************************************)
C24_StaleResponseNeverUsed ==
    \A h \in Finished :
        /\ h.result.kind = "return" => HasContent(Last(h.requests))
        /\ (h.requests # <<>> /\ Unparseable(Last(h.requests)))
              => h.result = Returned(Degraded(ContentOf(Last(h.requests))))
        /\ \A k \in DOMAIN h.requests :
              FailedAtRequestLevel(h.requests[k])
                  => \/ k < Len(h.requests)
                     \/ h.result = Exhausted(Error(h.requests[k].raised, "create", k))

(***************************************************************************)
(* C25: a call with an explicitly empty candidate list issues no request   *)
(* and raises the exhaustion error with no failure cause; the default list *)
(* replaces an absent (None) argument only, never an empty list.           *)
(***************************************************************************)
C25_EmptyListRaisesAtOnce ==
    \A h \in Finished :
        /\ (~h.arg.isNone /\ h.arg.list = <<>>)
              => /\ h.requests = <<>>
                 /\ h.result = Exhausted(NoError)
        /\ ~h.arg.isNone
              => \A k \in DOMAIN h.requests : h.requests[k].model = h.arg.list[k]
        /\ h.arg.isNone
              => /\ h.requests # <<>>
                 /\ \A k \in DOMAIN h.requests : h.requests[k].model = DefaultModels[k]

C25_Witness ==
    \E h \in Finished :
        /\ ~h.arg.isNone
        /\ h.arg.list = <<>>
        /\ h.requests = <<>>
        /\ h.result.kind = "raise"
        /\ h.result.cause = NoError

(***************************************************************************)
(* C26: provided every backend request completes, every analyze_meeting    *)
(* call over a finite candidate list terminates, by returning or by        *)
(* raising, and issues at most as many requests as the list has            *)
(* candidates.                                                             *)
(***************************************************************************)
C26_EveryCallTerminates ==
    /\ [](Len(requests) <= Len(models_to_try))
    /\ [](\A h \in Finished : Len(h.requests) <= Len(ListOf(h.arg)))
    /\ (pc # "idle") ~> (pc = "idle")

C26_Witness ==
    \E h \in Finished :
        /\ Len(ListOf(h.arg)) = MaxLen
        /\ Len(h.requests) = MaxLen
        /\ h.result.kind = "raise"

(***************************************************************************)
(* C27: analyze_meeting keeps no state between calls.  The instance's only *)
(* field, client, is never reassigned; every call, whatever the calls      *)
(* before it on the same instance did, starts at the first candidate of    *)
(* its own list with analysis_data, last_error and response None, so its   *)
(* first request goes to that candidate, the cause its exhaustion error    *)
(* names is an error of this call, and no response of an earlier call is   *)
(* there for its first iteration to read.                                  *)
(***************************************************************************)
C27_NoStateBetweenCalls ==
    /\ client = Groq(ApiKey)
    /\ (pc = "loop" /\ requests = <<>>)
          => /\ idx = 1
             /\ analysis_data = PyNone
             /\ last_error = NoError
             /\ response = NoResponse
    /\ \A i \in DOMAIN history :
          LET h == history[i]
          IN  /\ ListOf(h.arg) # <<>>
                    => /\ h.requests # <<>>
                       /\ h.requests[1].pos = 1
                       /\ h.requests[1].model = ListOf(h.arg)[1]
              /\ (h.result.kind = "raise" /\ h.result.cause # NoError)
                    => h.result.cause.at \in DOMAIN h.requests
              /\ (h.result.kind = "raise" /\ h.result.error.src = "handler")
                    => h.result.error.at > 1

\* a second call on the instance, after a call that went on to its second
\* candidate, has sent its first request to its own first candidate
C27_Witness ==
    /\ Len(history) = 2
    /\ Len(history[1].requests) = 2
    /\ history[2].requests # <<>>
    /\ history[2].requests[1].pos = 1
    /\ history[2].requests[1].model = history[1].requests[2].model

(***************************************************************************)
(* The analysis step written inline in src/app.py (step 4): its own        *)
(* system_prompt literal and candidate list, and its own copy of the       *)
(* fallback loop, run against a given sequence of backend outcomes.        *)
(***************************************************************************)
\* the columns the continuation lines of src/app.py's system_prompt literal
\* are indented by
InlinePromptIndent == 16

inline_system_prompt == SystemPrompt(InlinePromptIndent)

inline_models_to_try ==
    <<"llama-3.1-8b-instant", "llama-3.3-70b-versatile", "mixtral-8x7b-32768">>

\* what the backend did with each request: create(...) raised, or returned
Outcomes(reqs) ==
    [k \in DOMAIN reqs |-> [raised |-> reqs[k].raised, response |-> reqs[k].response]]

\* groq_client.chat.completions.create(model=model_name, ...)
InlineRequest(pos, text, out) ==
    [pos |-> pos, model |-> inline_models_to_try[pos],
     system |-> inline_system_prompt, user |-> UserMessage(text),
     temperature |-> Temperature, response_format |-> ResponseFormat,
     raised |-> out.raised, response |-> out.response]

\* the locals of the inline step: exit is "loop" while the for loop runs,
\* "after" past it and "raise" when an exception has left the loop
InlineLocals(ad, le, resp, reqs, exit, raised) ==
    [analysis_data |-> ad, last_error |-> le, response |-> resp,
     requests |-> reqs, exit |-> exit, raised |-> raised]

\* InlineExceptException leaving the loop instead of trying the next model
InlineExceptException_Break(s, e) ==
    [s EXCEPT !.last_error = e, !.exit = "after"]

\* except Exception as e: last_error = e; continue
InlineExceptException(s, e) ==
    [s EXCEPT !.last_error = e]

\* except json.JSONDecodeError as e: last_error = e; if response: the raw
\* content becomes the summary, break; else continue
InlineExceptJSONDecodeError(s, e) ==
    LET rc == ReadContent(s.response)
    IN  IF s.response.isNone THEN [s EXCEPT !.last_error = e]
        ELSE IF rc.exc # "none"
        THEN [s EXCEPT !.last_error = e, !.exit = "raise",
                       !.raised = Error("IndexError", "handler", e.at)]
        ELSE IF rc.content.isNone
        THEN [s EXCEPT !.last_error = e, !.exit = "raise",
                       !.raised = Error("TypeError", "handler", e.at)]
        ELSE [s EXCEPT !.last_error = e, !.exit = "after",
                       !.analysis_data = Degraded(rc.content.s)]

\* the except clause of the inline loop that catches e
InlineHandle(s, e) ==
    IF e.type = "JSONDecodeError"
    THEN InlineExceptJSONDecodeError(s, e)
    ELSE InlineExceptException(s, e)

\* one iteration of `for model_name in models_to_try` on the outcome out
InlineIteration(s, text, out) ==
    LET pos == Len(s.requests) + 1
        sent == [s EXCEPT !.requests = Append(s.requests, InlineRequest(pos, text, out))]
        got == [sent EXCEPT !.response = out.response]
        rc == ReadContent(out.response)
        j == json_loads(rc.content.s)
    IN  IF out.raised # "none" THEN InlineHandle(sent, Error(out.raised, "create", pos))
        ELSE IF rc.exc # "none" THEN InlineHandle(got, Error("IndexError", "try", pos))
        ELSE IF rc.content.isNone THEN InlineHandle(got, Error("TypeError", "try", pos))
        ELSE IF j.ok THEN [got EXCEPT !.analysis_data = j.val, !.exit = "after"]
        ELSE InlineHandle(got, Error("JSONDecodeError", "try", pos))

\* the for loop on the outcomes outs, one per request: it stops where the
\* loop ends, or "starved" where it would send a request outs has no
\* outcome for
RECURSIVE InlineLoop(_, _, _)
InlineLoop(s, text, outs) ==
    IF s.exit # "loop" THEN [locals |-> s, left |-> outs]
    ELSE IF Len(s.requests) >= Len(inline_models_to_try)
    THEN [locals |-> [s EXCEPT !.exit = "after"], left |-> outs]
    ELSE IF outs = <<>>
    THEN [locals |-> [s EXCEPT !.exit = "starved"], left |-> outs]
    ELSE InlineLoop(InlineIteration(s, text, Head(outs)), text, Tail(outs))

\* if analysis_data is None: raise Exception("All models failed. ...")
InlineResult(s) ==
    IF s.exit = "raise" THEN Raised(s.raised, s.last_error)
    ELSE IF s.exit = "starved" THEN Raised(Error("None", "starved", 0), s.last_error)
    ELSE IF s.analysis_data = PyNone THEN Exhausted(s.last_error)
    ELSE Returned(s.analysis_data)

\* the inline step on a transcript and a sequence of backend outcomes
InlineRun(text, outs) ==
    LET r == InlineLoop(InlineLocals(PyNone, NoError, NoResponse, <<>>, "loop", NoError),
                        text, outs)
    IN  [requests |-> r.locals.requests, result |-> InlineResult(r.locals),
         left |-> r.left]

\* the calls of analyze_meeting made with the default list
DefaultCalls == {h \in Finished : h.arg.isNone}

\* the request without the indentation inside its system message
Unindented(req) == [req EXCEPT !.system.indent = 0]

(***************************************************************************)
(* C28 as stated: on the same transcript, the default list and the same    *)
(* backend outcomes, the inline loop of src/app.py sends the same requests *)
(* as analyze_meeting and ends with the same outcome.                      *)
(***************************************************************************)
C28_Original ==
    \A h \in DefaultCalls :
        LET r == InlineRun(h.arg.text, Outcomes(h.requests))
        IN  /\ r.requests = h.requests
            /\ r.left = <<>>
            /\ r.result = h.result

(***************************************************************************)
(* C28 amended: on the same transcript, the default list and the same      *)
(* backend outcomes, the inline loop of src/app.py sends as many requests  *)
(* as analyze_meeting, to the same models in the same order, with the same *)
(* user message, temperature and response format and a system message that *)
(* differs in the indentation of its lines only, and ends with the same    *)
(* outcome: the same result, the same degraded result, the same error      *)
(* leaving the loop, or the exhaustion error with the same cause.          *)
(***************************************************************************)
C28_SameUpToPromptIndent ==
    \A h \in DefaultCalls :
        LET r == InlineRun(h.arg.text, Outcomes(h.requests))
        IN  /\ Len(r.requests) = Len(h.requests)
            /\ \A k \in DOMAIN h.requests :
                  /\ Unindented(r.requests[k]) = Unindented(h.requests[k])
                  /\ r.requests[k].system.indent = InlinePromptIndent
                  /\ h.requests[k].system.indent = PromptIndent
            /\ r.left = <<>>
            /\ r.result = h.result

\* a default-list call whose first two requests failed and whose third
\* returned text that is no JSON: the degraded result of the third candidate
C28_Witness ==
    \E h \in DefaultCalls :
        /\ Len(h.requests) = Len(inline_models_to_try)
        /\ h.result.kind = "return"
        /\ Unparseable(h.requests[Len(h.requests)])
        /\ InlineRun(h.arg.text, Outcomes(h.requests)).result = h.result

====
